---- MODULE Spec2Model ----
(***************************************************************************)
(* Anonymous chat bot (bot.py + database.py): matchmaking queue, pairings, *)
(* rate limiter, hourly quota with the subscription override, reports,     *)
(* blocks and the recent-message window.                                   *)
(*                                                                         *)
(* Every handler is a coroutine.  The sqlite3 calls are synchronous, so    *)
(* the code between two awaits is one atomic step; a handler is modelled   *)
(* as one action per such segment.  An await of message.answer or of       *)
(* bot.send_message may raise (the exception ends the handler), while      *)
(* notify_user and the copy loop swallow the exception.  A trailing await  *)
(* after which the handler touches no state is folded into the segment     *)
(* before it.                                                              *)
(*                                                                         *)
(* Telegram user ids are positive integers; 0 stands for Python's None     *)
(* (both are falsy in "if partner:" / "if candidate:").                    *)
(***************************************************************************)
EXTENDS Integers, Sequences, FiniteSets, TLC

\* ------------------------------------------------------------ bounds
NumUsers == 3
MaxTicks == 1
MaxQuotaTicks == 2
MaxReports == 1
MaxTexts == 1
MaxWindowTexts == 7
SHORT_COOLDOWN == 2
MaxRateTime == 7
MaxPairReports == 2

\* ------------------------------------------------- program constants
LIMIT == 5
RESET_SECONDS == 3600
NEXT_COOLDOWN == 5
WINDOW_LIMIT == 5
ADMIN_ID == 1
None == 0

Users == 1..NumUsers
DbUsers == 1..(NumUsers + 1)
Tasks == {1, 2}
\* the action names is_rate_limited is called with ("next" is the one cmd_next uses)
Actions == {"next", "stop"}
\* the cooldowns is_rate_limited is called with
Cooldowns == {SHORT_COOLDOWN, NEXT_COOLDOWN}

\* The process starts at StartTime; the limits table may hold a record that
\* an earlier run of the process stored (database.db outlives the process).
StartTime == 2 * RESET_SECONDS
NoRecord == [used_count |-> 0, reset_time |-> 0, premium |-> 0]
FullRecord == [used_count |-> LIMIT, reset_time |-> StartTime + NEXT_COOLDOWN, premium |-> 0]

\* a record of a running window, stored by an earlier run, with two requests left
NearFullRecord == [used_count |-> LIMIT - 2, reset_time |-> StartTime + RESET_SECONDS,
                   premium |-> 0]

VARIABLES
    now,               \* time.time(), in whole seconds
    queue,             \* table queue: the waiting ids, in the order of their INSERTs
    chats,             \* table chats: set of rows <<user1_id, user2_id>>
    blocks,            \* table blocks: set of ids
    limits,            \* table limits: id -> [used_count, reset_time, premium]
    reports,           \* table reports: sequence of rows
    last_action_time,  \* bot.last_action_time: key -> stamp, 0 for a key not in the dict
    accepted_at,       \* history: key -> <<time of the last call that returned False>>
    last_messages,     \* bot.last_messages: id -> sequence of <<chat_id, message_id>>
    message_id,        \* id -> number of text messages the user's chat has seen
    admin_inbox,       \* the batches cmd_report has sent to ADMIN_ID
    relayed,           \* history: id -> every reference handle_text has pushed
    task,              \* the running handlers: their position and locals
    last               \* the handler (or database call) that finished last

vars == <<now, queue, chats, blocks, limits, reports, last_action_time, accepted_at,
          last_messages, message_id, admin_inbox, relayed, task, last>>

\* ------------------------------------------------------------ database.py
Range(s) == {s[i] : i \in 1..Len(s)}

Min(S) == CHOOSE x \in S : \A y \in S : x <= y

\* queue.user_id is INTEGER PRIMARY KEY: the column is the row's ROWID.
RowId(user_id) == user_id

\* "fair re-insertion at the back": the user is taken out and appended again
add_to_queue_requeue(q, user_id) ==
    Append(SelectSeq(q, LAMBDA x : x # user_id), user_id)

add_to_queue(q, user_id) ==
    IF user_id \in Range(q) THEN q ELSE Append(q, user_id)

remove_from_queue(q, user_id) == SelectSeq(q, LAMBDA x : x # user_id)

\* a lookup with "user_id = ?" in place of "user_id != ?"
get_first_in_queue_self(q, exclude_user_id) ==
    IF exclude_user_id \in Range(q) THEN exclude_user_id ELSE None

\* a lookup that ignores exclude_user_id
get_first_in_queue_any(q, exclude_user_id) ==
    IF q = <<>> THEN None
    ELSE CHOOSE x \in Range(q) : \A y \in Range(q) : RowId(x) <= RowId(y)

get_first_in_queue(q, exclude_user_id) ==
    LET rows == IF exclude_user_id # None
                THEN {x \in Range(q) : x # exclude_user_id}
                ELSE Range(q)
    IN  IF rows = {} THEN None
        ELSE CHOOSE x \in rows : \A y \in rows : RowId(x) <= RowId(y)

add_chat(c, user1_id, user2_id) == c \cup {<<user1_id, user2_id>>}

\* a lookup that runs the first query only
get_partner_first_column(c, user_id) ==
    LET asFirst == {r[2] : r \in {x \in c : x[1] = user_id}}
    IN  IF asFirst # {} THEN CHOOSE x \in asFirst : \A y \in asFirst : x <= y ELSE None

\* fetchone() of a query with no ORDER BY: sqlite walks the primary-key index
\* (user1_id, user2_id), so the first row is the least one.
get_partner(c, user_id) ==
    LET asFirst  == {r[2] : r \in {x \in c : x[1] = user_id}}
        asSecond == {r[1] : r \in {x \in c : x[2] = user_id}}
    IN  IF asFirst # {} THEN Min(asFirst)
        ELSE IF asSecond # {} THEN Min(asSecond)
        ELSE None

\* a DELETE that matches the row in one orientation only
remove_chat_by_users_ordered(c, user1_id, user2_id) == c \ {<<user1_id, user2_id>>}

remove_chat_by_users(c, user1_id, user2_id) ==
    c \ {<<user1_id, user2_id>>, <<user2_id, user1_id>>}

\* an insert that keeps one row per pair
add_report_once(r, reporter_id, reported_id, timestamp) ==
    IF \E i \in 1..Len(r) : r[i].reporter_id = reporter_id /\ r[i].reported_id = reported_id
    THEN r
    ELSE Append(r, [reporter_id |-> reporter_id, reported_id |-> reported_id,
                    timestamp |-> timestamp])

add_report(r, reporter_id, reported_id, timestamp) ==
    Append(r, [reporter_id |-> reporter_id, reported_id |-> reported_id,
               timestamp |-> timestamp])

block_user(b, user_id) == b \cup {user_id}

unblock_user(b, user_id) == b \ {user_id}

\* a block guard that never fires
is_blocked_never(b, user_id) == FALSE

is_blocked(b, user_id) == user_id \in b

get_limit_info(l, user_id) == l[user_id]

update_limit(l, user_id, used_count, reset_time, premium) ==
    [l EXCEPT ![user_id] = [used_count |-> used_count, reset_time |-> reset_time,
                            premium |-> premium]]

\* ------------------------------------------------------------ bot.py helpers
\* a window that keeps its first entries: lst[:limit]
push_last_message_keep_first(lm, user_id, chat_id, msg_id, limit) ==
    LET lst == Append(lm[user_id], <<chat_id, msg_id>>)
    IN  [lm EXCEPT ![user_id] = IF Len(lst) > limit THEN SubSeq(lst, 1, limit) ELSE lst]

push_last_message(lm, user_id, chat_id, msg_id, limit) ==
    LET lst == Append(lm[user_id], <<chat_id, msg_id>>)
        cut == IF Len(lst) > limit
               THEN SubSeq(lst, Len(lst) - limit + 1, Len(lst))
               ELSE lst
    IN  [lm EXCEPT ![user_id] = cut]

\* key = f"{user_id}:{action}": one key per pair (user_id is an int)
Key(user_id, action) == <<user_id, action>>

Keys == {Key(u, a) : u \in Users, a \in Actions}

\* the value is_rate_limited returns at time t
is_rate_limited(lat, user_id, action, cooldown, t) ==
    t - lat[Key(user_id, action)] < cooldown

\* a limiter that stamps every call, rejected or not
stamp_always(lat, user_id, action, cooldown, t) ==
    [lat EXCEPT ![Key(user_id, action)] = t]

\* last_action_time after a call of is_rate_limited at time t
stamp(lat, user_id, action, cooldown, t) ==
    IF is_rate_limited(lat, user_id, action, cooldown, t)
    THEN lat
    ELSE [lat EXCEPT ![Key(user_id, action)] = t]

\* the history of accepted calls after a call at time t
accept(acc, lat, user_id, action, cooldown, t) ==
    IF is_rate_limited(lat, user_id, action, cooldown, t)
    THEN acc
    ELSE [acc EXCEPT ![Key(user_id, action)] = <<t>>]

\* a rollover that moves the window but keeps the old count
Rollover_keeps_count(info, t) ==
    IF t > info.reset_time
    THEN [used_count |-> info.used_count, reset_time |-> t + RESET_SECONDS,
          premium |-> info.premium]
    ELSE info

\* cmd_next, lines 111-113: the window rollover
Rollover(info, t) ==
    IF t > info.reset_time
    THEN [used_count |-> 0, reset_time |-> t + RESET_SECONDS, premium |-> info.premium]
    ELSE info

\* a quota test that lets the request at the limit through
OverQuota_late(info) == info.premium = 0 /\ info.used_count > LIMIT

\* cmd_next, line 116: over quota, the subscription check decides
OverQuota(info) == info.premium = 0 /\ info.used_count >= LIMIT

\* a count that ignores the premium flag
CountUse_always(used, premium) == used + 1

\* cmd_next, lines 128-129
CountUse(used, premium) == IF premium = 0 THEN used + 1 ELSE used

InPairing(c, u) == \E r \in c : r[1] = u \/ r[2] = u

\* ------------------------------------------------------------ tasks
\* info is what get_limit_info returned (line 108); used, reset_time and premium
\* are cmd_next's locals of those names; target is the partner or the /block
\* argument; writes counts the handler's calls of update_limit.
IdleTask == [pc |-> "idle", uid |-> None, info |-> NoRecord, used |-> 0, reset_time |-> 0,
             premium |-> 0, target |-> None, writes |-> 0]

\* last is a history variable: the command that finished last, its caller, its
\* argument or result, its outcome, how often it called update_limit and the
\* limits record it read.  It is
\* kept only in the specifications that start with NoLast; where it starts as
\* Unobserved it stays so (it plays no part in what the program does).
NoLast == [cmd |-> "none", uid |-> None, arg |-> None, outcome |-> "none", writes |-> 0,
           before |-> NoRecord]
Unobserved == [cmd |-> "off", uid |-> None, arg |-> None, outcome |-> "off", writes |-> 0,
               before |-> NoRecord]

DoneNext(uid, arg, outcome, writes, before) ==
    IF last = Unobserved THEN last
    ELSE [cmd |-> "next", uid |-> uid, arg |-> arg, outcome |-> outcome, writes |-> writes,
          before |-> before]

Done(cmd, uid, arg, outcome, writes) ==
    IF last = Unobserved THEN last
    ELSE [cmd |-> cmd, uid |-> uid, arg |-> arg, outcome |-> outcome, writes |-> writes,
          before |-> NoRecord]

InitWith(stored, observed) ==
    /\ now = StartTime
    /\ queue = <<>>
    /\ chats = {}
    /\ blocks = {}
    /\ limits \in stored
    /\ reports = <<>>
    /\ last_action_time = [k \in Keys |-> 0]
    /\ accepted_at = [k \in Keys |-> <<>>]
    /\ last_messages = [u \in Users |-> <<>>]
    /\ message_id = [u \in Users |-> 0]
    /\ admin_inbox = <<>>
    /\ relayed = [u \in Users |-> <<>>]
    /\ task = [t \in Tasks |-> IdleTask]
    /\ last = IF observed THEN NoLast ELSE Unobserved

\* what the limits table may hold at start: no record, or for each of the
\* users 1..n the record of a running window with the quota used up
StoredLimits(n) ==
    {l \in [Users -> {NoRecord, FullRecord}] : \A u \in Users : u > n => l[u] = NoRecord}

Init == InitWith(StoredLimits(1), FALSE)

\* time passes
Tick(d, max) ==
    /\ now + d <= StartTime + max * d
    /\ now' = now + d
    /\ UNCHANGED <<queue, chats, blocks, limits, reports, last_action_time, accepted_at,
                   last_messages, message_id, admin_inbox, relayed, task, last>>

\* ------------------------------------------------------------ cmd_next
Await(t, pc, u, info, used, reset_time, premium, target, writes) ==
    [task EXCEPT ![t] = [pc |-> pc, uid |-> u, info |-> info, used |-> used,
                         reset_time |-> reset_time, premium |-> premium,
                         target |-> target, writes |-> writes]]

Return(t) == [task EXCEPT ![t] = IdleTask]

\* lines 139-146: pair with the first waiting user, or join the queue.
\* add_chat raises IntegrityError when the row is already there.
find_or_enqueue(q, c, uid) ==
    LET candidate == get_first_in_queue(q, uid)
    IN  IF candidate # None
        THEN IF <<uid, candidate>> \in c
             THEN [queue |-> remove_from_queue(q, candidate), chats |-> c,
                   candidate |-> candidate, outcome |-> "error"]
             ELSE [queue |-> remove_from_queue(q, candidate),
                   chats |-> add_chat(c, uid, candidate),
                   candidate |-> candidate, outcome |-> "matched"]
        ELSE [queue |-> add_to_queue(q, uid), chats |-> c,
              candidate |-> None, outcome |-> "queued"]

FindSegment(t, uid, writes, before) ==
    LET r == find_or_enqueue(queue, chats, uid)
    IN  /\ queue' = r.queue
        /\ chats' = r.chats
        /\ task' = Return(t)
        /\ last' = DoneNext(uid, r.candidate, r.outcome, writes, before)

\* lines 131-146, up to the first await
MatchSegment(t, uid, used, reset_time, premium, before) ==
    /\ limits' = update_limit(limits, uid, used, reset_time, premium)
    /\ LET partner == get_partner(chats, uid)
       IN  IF partner # None
           THEN /\ chats' = remove_chat_by_users(chats, uid, partner)
                /\ queue' = queue
                /\ task' = Await(t, "next_left", uid, before, 0, 0, 0, partner, 1)
                /\ last' = last
           ELSE FindSegment(t, uid, 1, before)

\* lines 95-117: rate limiter, block guard, quota decision
NextStart(t, uid) ==
    /\ task[t].pc = "idle"
    /\ UNCHANGED <<now, blocks, reports, last_messages, message_id, admin_inbox, relayed>>
    /\ last_action_time' = stamp(last_action_time, uid, "next", NEXT_COOLDOWN, now)
    /\ accepted_at' = accept(accepted_at, last_action_time, uid, "next", NEXT_COOLDOWN, now)
    /\ IF is_rate_limited(last_action_time, uid, "next", NEXT_COOLDOWN, now)
       THEN /\ last' = DoneNext(uid, None, "rate_limited", 0, NoRecord)
            /\ UNCHANGED <<queue, chats, limits, task>>
       ELSE IF is_blocked(blocks, uid)
               THEN /\ last' = DoneNext(uid, None, "blocked", 0, NoRecord)
                    /\ UNCHANGED <<queue, chats, limits, task>>
               ELSE LET info == get_limit_info(limits, uid)
                        cur  == Rollover(info, now)
                    IN  IF OverQuota(cur)
                        THEN /\ task' = Await(t, "next_sub", uid, info, cur.used_count,
                                              cur.reset_time, cur.premium, None, 0)
                             /\ UNCHANGED <<queue, chats, limits, last>>
                        ELSE MatchSegment(t, uid,
                                          CountUse(cur.used_count, cur.premium),
                                          cur.reset_time, cur.premium, info)

\* line 117: is_subscribed returned True; line 118, then the await of line 119
NextSubscribed(t) ==
    /\ task[t].pc = "next_sub"
    /\ task' = [task EXCEPT ![t].pc = "next_grant_ans", ![t].premium = 1]
    /\ UNCHANGED <<now, queue, chats, blocks, limits, reports, last_action_time, accepted_at,
                   last_messages, message_id, admin_inbox, relayed, last>>

\* line 117: is_subscribed returned False (or raised); the await of line 121
NextNotSubscribed(t) ==
    /\ task[t].pc = "next_sub"
    /\ task' = [task EXCEPT ![t].pc = "next_deny_ans"]
    /\ UNCHANGED <<now, queue, chats, blocks, limits, reports, last_action_time, accepted_at,
                   last_messages, message_id, admin_inbox, relayed, last>>

\* line 119 answered: lines 128-146
NextGranted(t) ==
    /\ task[t].pc = "next_grant_ans"
    /\ UNCHANGED <<now, blocks, reports, last_action_time, accepted_at, last_messages, message_id,
                   admin_inbox, relayed>>
    /\ MatchSegment(t, task[t].uid, CountUse(task[t].used, task[t].premium),
                    task[t].reset_time, task[t].premium, task[t].info)

\* line 121 answered: lines 125-126
NextDenied(t) ==
    /\ task[t].pc = "next_deny_ans"
    /\ limits' = update_limit(limits, task[t].uid, task[t].used, task[t].reset_time,
                              task[t].premium)
    /\ task' = Return(t)
    /\ last' = DoneNext(task[t].uid, None, "quota_denied", task[t].writes + 1,
                        task[t].info)
    /\ UNCHANGED <<now, queue, chats, blocks, reports, last_action_time, accepted_at, last_messages,
                   message_id, admin_inbox, relayed>>

\* lines 136-137 done: lines 139-146
NextLeft(t) ==
    /\ task[t].pc = "next_left"
    /\ FindSegment(t, task[t].uid, task[t].writes, task[t].info)
    /\ UNCHANGED <<now, blocks, limits, reports, last_action_time, accepted_at, last_messages,
                   message_id, admin_inbox, relayed>>

\* an awaited message.answer / bot.send_message raises: the handler ends there
AnswerFails(t) ==
    /\ task[t].pc \in {"next_grant_ans", "next_deny_ans", "next_left",
                        "report_ans", "report_header"}
    /\ task' = Return(t)
    /\ last' = IF task[t].pc \in {"report_ans", "report_header"}
               THEN Done("report", task[t].uid, task[t].target, "error", 0)
               ELSE DoneNext(task[t].uid, task[t].target, "error", task[t].writes,
                             task[t].info)
    /\ UNCHANGED <<now, queue, chats, blocks, limits, reports, last_action_time, accepted_at,
                   last_messages, message_id, admin_inbox, relayed>>

\* ------------------------------------------------------------ cmd_stop
StopCmd(t, uid) ==
    /\ task[t].pc = "idle"
    /\ LET partner == get_partner(chats, uid)
       IN  IF partner # None
           THEN /\ chats' = remove_chat_by_users(chats, uid, partner)
                /\ queue' = queue
                /\ last' = Done("stop", uid, partner, "stopped", 0)
           ELSE /\ queue' = remove_from_queue(queue, uid)
                /\ chats' = chats
                /\ last' = Done("stop", uid, None, "not_in_chat", 0)
    /\ UNCHANGED <<now, blocks, limits, reports, last_action_time, accepted_at, last_messages,
                   message_id, admin_inbox, relayed, task>>

\* ------------------------------------------------------------ cmd_block
\* lines 209-225
BlockStart(t, from_user, user_id) ==
    /\ task[t].pc = "idle"
    /\ UNCHANGED <<now, limits, reports, last_action_time, accepted_at, last_messages, message_id,
                   admin_inbox, relayed>>
    /\ IF from_user # ADMIN_ID
       THEN /\ last' = Done("block", from_user, user_id, "not_admin", 0)
            /\ UNCHANGED <<queue, chats, blocks, task>>
       ELSE /\ blocks' = block_user(blocks, user_id)
            /\ LET partner == get_partner(chats, user_id)
               IN  IF partner # None
                   THEN /\ chats' = remove_chat_by_users(chats, user_id, partner)
                        /\ task' = Await(t, "block_notify", from_user, NoRecord, 0, 0, 0, user_id, 0)
                        /\ UNCHANGED <<queue, last>>
                   ELSE /\ queue' = remove_from_queue(queue, user_id)
                        /\ last' = Done("block", from_user, user_id, "blocked", 0)
                        /\ UNCHANGED <<chats, task>>

\* line 225 done (notify_user never raises): lines 226-228
BlockNotified(t) ==
    /\ task[t].pc = "block_notify"
    /\ queue' = remove_from_queue(queue, task[t].target)
    /\ task' = Return(t)
    /\ last' = Done("block", task[t].uid, task[t].target, "blocked", 0)
    /\ UNCHANGED <<now, chats, blocks, limits, reports, last_action_time, accepted_at, last_messages,
                   message_id, admin_inbox, relayed>>

\* ------------------------------------------------------------ cmd_unblock
UnblockCmd(t, from_user, user_id) ==
    /\ task[t].pc = "idle"
    /\ IF from_user # ADMIN_ID
       THEN /\ last' = Done("unblock", from_user, user_id, "not_admin", 0)
            /\ blocks' = blocks
       ELSE /\ blocks' = unblock_user(blocks, user_id)
            /\ last' = Done("unblock", from_user, user_id, "unblocked", 0)
    /\ UNCHANGED <<now, queue, chats, limits, reports, last_action_time, accepted_at, last_messages,
                   message_id, admin_inbox, relayed, task>>

\* ------------------------------------------------------------ cmd_report
\* lines 170-177
ReportCmd(t, reporter, max) ==
    /\ task[t].pc = "idle"
    /\ UNCHANGED <<now, queue, chats, blocks, limits, last_action_time, accepted_at, last_messages,
                   message_id, admin_inbox, relayed>>
    /\ LET partner == get_partner(chats, reporter)
       IN  IF partner = None
           THEN /\ last' = Done("report", reporter, None, "no_session", 0)
                /\ UNCHANGED <<reports, task>>
           ELSE /\ Len(reports) < max
                /\ reports' = add_report(reports, reporter, partner, now)
                /\ task' = Await(t, "report_ans", reporter, NoRecord, 0, 0, 0, partner, 0)
                /\ last' = last

ReportStart(t, reporter) == ReportCmd(t, reporter, MaxReports)

\* line 177 answered: lines 179-184
ReportAnswered(t) ==
    /\ task[t].pc = "report_ans"
    /\ UNCHANGED <<now, queue, chats, blocks, limits, reports, last_action_time, accepted_at,
                   last_messages, message_id, relayed>>
    /\ IF last_messages[task[t].target] = <<>>
       THEN /\ admin_inbox' = Append(admin_inbox,
                    [reporter |-> task[t].uid, reported |-> task[t].target,
                     copies |-> <<>>])
            /\ task' = Return(t)
            /\ last' = Done("report", task[t].uid, task[t].target, "reported", 0)
       ELSE /\ task' = [task EXCEPT ![t].pc = "report_header"]
            /\ UNCHANGED <<admin_inbox, last>>

\* line 184 sent: lines 185-190.  msgs is the list object of last_messages, and
\* copy_message is called for each of its entries in order (a failed copy is
\* logged and the loop goes on).
ReportForwarded(t) ==
    /\ task[t].pc = "report_header"
    /\ admin_inbox' = Append(admin_inbox,
            [reporter |-> task[t].uid, reported |-> task[t].target,
             copies |-> last_messages[task[t].target]])
    /\ task' = Return(t)
    /\ last' = Done("report", task[t].uid, task[t].target, "reported", 0)
    /\ UNCHANGED <<now, queue, chats, blocks, limits, reports, last_action_time, accepted_at,
                   last_messages, message_id, relayed>>

\* ------------------------------------------------------------ handle_text
\* message.chat.id of a private chat is the user's id; Telegram numbers the
\* messages of a chat upwards.
\* the text messages received so far
RECURSIVE Total(_, _)
Total(f, n) == IF n = 0 THEN 0 ELSE f[n] + Total(f, n - 1)

Texts == Total(message_id, NumUsers)

TextCmd(t, uid, max) ==
    /\ task[t].pc = "idle"
    /\ Texts < max
    /\ message_id' = [message_id EXCEPT ![uid] = @ + 1]
    /\ IF is_blocked(blocks, uid)
       THEN /\ last' = Done("text", uid, None, "text_blocked", 0)
            /\ UNCHANGED <<last_messages, relayed>>
       ELSE LET partner_id == get_partner(chats, uid)
            IN  IF partner_id = None
                THEN /\ last' = Done("text", uid, None, "no_partner", 0)
                     /\ UNCHANGED <<last_messages, relayed>>
                ELSE /\ last_messages' = push_last_message(last_messages, uid, uid,
                                                           message_id'[uid], WINDOW_LIMIT)
                     /\ relayed' = [relayed EXCEPT
                                        ![uid] = Append(@, <<uid, message_id'[uid]>>)]
                     /\ last' = Done("text", uid, partner_id, "relayed", 0)
    /\ UNCHANGED <<now, queue, chats, blocks, limits, reports, last_action_time, accepted_at,
                   admin_inbox, task>>

\* ------------------------------------------------------------ database calls
\* The functions of database.py called directly, on any ids.
DbAddToQueue(user_id) ==
    /\ queue' = add_to_queue(queue, user_id)
    /\ last' = Done("add_to_queue", None, user_id, "ok", 0)
    /\ UNCHANGED <<now, chats, blocks, limits, reports, last_action_time, accepted_at, last_messages,
                   message_id, admin_inbox, relayed, task>>

DbRemoveFromQueue(user_id) ==
    /\ queue' = remove_from_queue(queue, user_id)
    /\ last' = Done("remove_from_queue", None, user_id, "ok", 0)
    /\ UNCHANGED <<now, chats, blocks, limits, reports, last_action_time, accepted_at, last_messages,
                   message_id, admin_inbox, relayed, task>>

\* last.uid is the excluded id, last.arg the id returned
DbGetFirstInQueue(exclude_user_id) ==
    /\ last' = Done("get_first_in_queue", exclude_user_id,
                    get_first_in_queue(queue, exclude_user_id), "ok", 0)
    /\ UNCHANGED <<now, queue, chats, blocks, limits, reports, last_action_time, accepted_at,
                   last_messages, message_id, admin_inbox, relayed, task>>

\* cmd_next's lines 139-146 on the tables as they are
DbFindOrEnqueue(uid) ==
    /\ chats = {}
    /\ FindSegment(1, uid, 0, NoRecord)
    /\ UNCHANGED <<now, blocks, limits, reports, last_action_time, accepted_at, last_messages,
                   message_id, admin_inbox, relayed>>

DbRemoveChat(user1_id, user2_id) ==
    /\ chats # {}
    /\ chats' = remove_chat_by_users(chats, user1_id, user2_id)
    /\ last' = Done("remove_chat_by_users", user1_id, user2_id, "ok", 0)
    /\ UNCHANGED <<now, queue, blocks, limits, reports, last_action_time, accepted_at, last_messages,
                   message_id, admin_inbox, relayed, task>>

\* ------------------------------------------------------------ specifications
QuotaSteps(t) ==
    \/ NextSubscribed(t)
    \/ NextNotSubscribed(t)
    \/ NextGranted(t)
    \/ NextDenied(t)

ReportSteps(t) ==
    \/ ReportAnswered(t)
    \/ ReportForwarded(t)

\* Spec: every command, handlers run to completion one at a time (only task 1
\* is ever used, and a command starts only when it is idle).
Next ==
    \/ Tick(NEXT_COOLDOWN, MaxTicks)
    \/ \E u \in Users : NextStart(1, u)
    \/ \E u \in Users : StopCmd(1, u)
    \/ \E u, v \in Users : BlockStart(1, u, v)
    \/ \E u, v \in Users : UnblockCmd(1, u, v)
    \/ \E u \in Users : ReportStart(1, u)
    \/ \E u \in Users : TextCmd(1, u, MaxTexts)
    \/ QuotaSteps(1)
    \/ NextLeft(1)
    \/ AnswerFails(1)
    \/ BlockNotified(1)
    \/ ReportSteps(1)

Spec == Init /\ [][Next]_vars

\* SpecQuota: match requests and leaves, run to completion, any user may start
\* over quota; the outcome of each command is kept in last.
InitQuota == InitWith(StoredLimits(NumUsers), TRUE)

NextQuota ==
    \/ Tick(NEXT_COOLDOWN, MaxQuotaTicks)
    \/ \E u \in Users : NextStart(1, u)
    \/ \E u \in Users : StopCmd(1, u)
    \/ QuotaSteps(1)
    \/ NextLeft(1)
    \/ AnswerFails(1)

SpecQuota == InitQuota /\ [][NextQuota]_vars

\* SpecReport: pairing, text and reports at one instant, run to completion, from
\* empty tables.  With no tick every user passes the rate limiter once, so no
\* handler reaches the subscription check or leaves a pairing through /next.
InitReport == InitWith(StoredLimits(0), TRUE)

NextReport ==
    \/ \E u \in Users : NextStart(1, u)
    \/ \E u \in Users : ReportStart(1, u)
    \/ \E u \in Users : TextCmd(1, u, MaxWindowTexts)
    \/ AnswerFails(1)
    \/ ReportSteps(1)

SpecReport == InitReport /\ [][NextReport]_vars

\* SpecAsync: the handlers of two updates interleave at their awaits.
InitAsync == InitWith(StoredLimits(1), FALSE)

NextAsync ==
    \/ Tick(NEXT_COOLDOWN, MaxTicks)
    \/ \E t \in Tasks, u \in Users : NextStart(t, u)
    \/ \E t \in Tasks, u \in Users : StopCmd(t, u)
    \/ \E t \in Tasks, v \in Users : BlockStart(t, ADMIN_ID, v)
    \/ \E t \in Tasks, v \in Users : UnblockCmd(t, ADMIN_ID, v)
    \/ \E t \in Tasks : QuotaSteps(t)
    \/ \E t \in Tasks : NextLeft(t)
    \/ \E t \in Tasks : AnswerFails(t)
    \/ \E t \in Tasks : BlockNotified(t)

SpecAsync == InitAsync /\ [][NextAsync]_vars

\* SpecNextAsync: /next handlers of any users interleave at their awaits, over
\* a time long enough for one user to be admitted by the rate limiter again
\* while an earlier handler of that user is still suspended.
InitNextAsync == InitWith(StoredLimits(1), FALSE)

NextNextAsync ==
    \/ Tick(NEXT_COOLDOWN, MaxQuotaTicks)
    \/ \E t \in Tasks, u \in Users : NextStart(t, u)
    \/ \E t \in Tasks : QuotaSteps(t)
    \/ \E t \in Tasks : NextLeft(t)
    \/ \E t \in Tasks : AnswerFails(t)

SpecNextAsync == InitNextAsync /\ [][NextNextAsync]_vars

\* SpecLeave: /next, /stop and the moderator's /block and /unblock, one
\* command at a time.
InitLeave == InitWith(StoredLimits(0), TRUE)

NextLeave ==
    \/ Tick(NEXT_COOLDOWN, MaxTicks)
    \/ \E u \in Users : NextStart(1, u)
    \/ \E u \in Users : StopCmd(1, u)
    \/ \E v \in Users : BlockStart(1, ADMIN_ID, v)
    \/ \E v \in Users : UnblockCmd(1, ADMIN_ID, v)
    \/ NextLeft(1)
    \/ AnswerFails(1)
    \/ BlockNotified(1)

SpecLeave == InitLeave /\ [][NextLeave]_vars

\* SpecBound: /next and /stop, one command at a time, from stored records that
\* are empty, used up, or two requests short of the limit.
StoredCounts(n) ==
    {l \in [Users -> {NoRecord, FullRecord, NearFullRecord}] :
        \A u \in Users : u > n => l[u] = NoRecord}

InitBound == InitWith(StoredCounts(NumUsers - 1), TRUE)

SpecBound == InitBound /\ [][NextQuota]_vars

\* SpecDB: the queue functions of database.py called in any order.
InitDB == InitWith(StoredLimits(0), TRUE)

NextDB ==
    \/ \E u \in DbUsers : DbAddToQueue(u)
    \/ \E u \in DbUsers : DbRemoveFromQueue(u)
    \/ \E u \in DbUsers : DbGetFirstInQueue(u)
    \/ \E u \in DbUsers : DbFindOrEnqueue(u)
    \/ \E u, v \in DbUsers : DbRemoveChat(u, v)

SpecDB == InitDB /\ [][NextDB]_vars

\* The commands that can be denied, one at a time, with the moderator's /block;
\* time passes in steps shorter than the cooldown of /next.
InitDenied == InitWith(StoredLimits(1), TRUE)

NextDenials ==
    \/ \E u \in Users : NextStart(1, u)
    \/ \E u \in Users : BlockStart(1, ADMIN_ID, u)
    \/ BlockNotified(1)
    \/ \E u \in Users : ReportStart(1, u)
    \/ \E u \in Users : TextCmd(1, u, MaxTexts)
    \/ QuotaSteps(1)
    \/ ReportSteps(1)
    \/ AnswerFails(1)
    \/ Tick(SHORT_COOLDOWN, MaxTicks)

SpecDenied == InitDenied /\ [][NextDenials]_vars

\* Reports, several of them, between users who pair and text, one command at
\* a time and all at one instant (so nobody's second /next passes the rate
\* limiter and no pairing is left).
InitReports == InitWith(StoredLimits(0), TRUE)

NextReports ==
    \/ \E u \in Users : NextStart(1, u)
    \/ \E u \in Users : ReportCmd(1, u, MaxPairReports)
    \/ ReportSteps(1)
    \/ \E u \in Users : TextCmd(1, u, MaxTexts)
    \/ AnswerFails(1)

SpecReports == InitReports /\ [][NextReports]_vars

\* is_rate_limited called directly, for any key and cooldown, as time passes
\* in steps of 1 second
RateCall(user_id, action, cooldown) ==
    /\ last_action_time' = stamp(last_action_time, user_id, action, cooldown, now)
    /\ accepted_at' = accept(accepted_at, last_action_time, user_id, action, cooldown, now)
    /\ last' = Done("is_rate_limited", user_id, cooldown,
                    IF is_rate_limited(last_action_time, user_id, action, cooldown, now)
                    THEN "limited" ELSE "accepted", 0)
    /\ UNCHANGED <<now, queue, chats, blocks, limits, reports, last_messages, message_id,
                   admin_inbox, relayed, task>>

RateTick ==
    /\ now < StartTime + MaxRateTime
    /\ now' = now + 1
    /\ UNCHANGED <<queue, chats, blocks, limits, reports, last_action_time, accepted_at,
                   last_messages, message_id, admin_inbox, relayed, task, last>>

InitRate == InitWith(StoredLimits(0), TRUE)

NextRate ==
    \/ \E u \in {1, 2}, a \in Actions, c \in Cooldowns : RateCall(u, a, c)
    \/ RateTick

SpecRate == InitRate /\ [][NextRate]_vars

\* ------------------------------------------------------------ claims
RowsOf(c, u) == {r \in c : r[1] = u \/ r[2] = u}

\* C1: in every state of Spec (every command, each run to completion before the
\* next starts) every user id is in at most one row of chats, counting both
\* columns, and no id that is in a row of chats is in the queue.
OnePairingAndNotQueued ==
    \A u \in Users :
        /\ Cardinality(RowsOf(chats, u)) <= 1
        /\ <<u, u>> \notin chats
        /\ InPairing(chats, u) => u \notin Range(queue)

\* a pairing exists while a third user waits
PairedWhileAnotherWaits ==
    \E r \in chats :
        /\ r[1] # r[2]
        /\ Len(queue) = 1
        /\ queue[1] \notin {r[1], r[2]}
        /\ task[1].pc = "idle"

\* C8: a blocked user is in no pairing and not in the queue, from the block
\* until an /unblock, whatever commands run; the /block leaves the blocked
\* user in the block set and its former partner in no pairing.
BlockedStayOut ==
    \A u \in blocks : u \notin Range(queue) /\ ~InPairing(chats, u)

BlockFreesPartner ==
    /\ \A u \in Users :
          BlockStart(1, ADMIN_ID, u) =>
              /\ u \in blocks'
              /\ ~InPairing(chats', u)
              /\ get_partner(chats, u) # None =>
                    /\ ~InPairing(chats', get_partner(chats, u))
                    /\ get_partner(chats, u) \notin blocks' \ blocks
    /\ BlockNotified(1) =>
          /\ task[1].target \in blocks'
          /\ task[1].target \notin Range(queue')

BlockCascades == [](BlockedStayOut) /\ [][BlockFreesPartner]_vars

\* p reported its partner u, u was blocked, and p is now paired with w
BlockedAndPartnerRematched ==
    \E u \in blocks, p \in Users :
        /\ p # u
        /\ \E i \in 1..Len(reports) :
              reports[i].reporter_id = p /\ reports[i].reported_id = u
        /\ get_partner(chats, p) \notin {None, u}
        /\ u \notin Range(queue)
        /\ ~InPairing(chats, u)
        /\ task[1].pc = "idle"

\* C2: get_first_in_queue(exclude_user_id = d) returns the entry that was added
\* earliest among those whose id differs from d (None if there is none),
\* whatever the numeric order of the ids.
OldestExcluding(q, d) ==
    LET waiting == SelectSeq(q, LAMBDA x : x # d)
    IN  IF waiting = <<>> THEN None ELSE waiting[1]

FifoByArrival ==
    last.cmd = "get_first_in_queue" => last.arg = OldestExcluding(queue, last.uid)

\* C3: add_to_queue of a user who is already queued leaves the queue as it is
\* (no duplicate, no change of order), and so does a /next that finds no
\* candidate while its caller waits.
NoDuplicateInQueue ==
    \A i, j \in 1..Len(queue) : queue[i] = queue[j] => i = j

EnqueueAgainChangesNothing ==
    /\ (last'.cmd = "add_to_queue" /\ last'.arg \in Range(queue)) => queue' = queue
    /\ (last'.cmd = "next" /\ last'.outcome = "queued" /\ last'.uid \in Range(queue))
          => queue' = queue

EnqueueIdempotent == [](NoDuplicateInQueue) /\ [][EnqueueAgainChangesNothing]_vars

\* add_to_queue was called for the user at the head of a queue of several:
\* a new entry would be at the back
EnqueuedAgainAtHead ==
    /\ last.cmd = "add_to_queue"
    /\ Len(queue) >= 2
    /\ queue[1] = last.arg

\* A finished /next that passed the rate limiter and the block guard; the
\* stamp the rate limiter set is the time of the call.
PassedGuards ==
    /\ task[1].pc = "idle"
    /\ last.cmd = "next"
    /\ last.outcome \notin {"rate_limited", "blocked"}

CallTime == last_action_time[Key(last.uid, "next")]

\* C4: a /next that passes the guards at a time after the stored resetTime is
\* not denied; it stores resetTime = now + 3600 and usedCount 1 for a user
\* who is not premium (so 5 becomes 1, never 6) and 0 for a premium user.
QuotaRollover ==
    (PassedGuards /\ CallTime > last.before.reset_time) =>
        /\ last.outcome \in {"matched", "queued", "error"}
        /\ last.writes = 1
        /\ limits[last.uid].reset_time = CallTime + RESET_SECONDS
        /\ limits[last.uid].used_count = IF last.before.premium = 0 THEN 1 ELSE 0
        /\ limits[last.uid].premium = last.before.premium

\* the record was usedCount 5, the call came after its resetTime
RolledOverFromFull ==
    /\ PassedGuards
    /\ last.before = FullRecord
    /\ CallTime > FullRecord.reset_time
    /\ limits[last.uid] = [used_count |-> 1, reset_time |-> CallTime + RESET_SECONDS,
                           premium |-> 0]

\* C5: a /next of a user who is not premium, with usedCount at the limit and
\* now <= resetTime, whose subscription check fails is denied: queue and
\* pairings are not touched, update_limit is called exactly once and the stored
\* record afterwards is the record the handler read.  The handler sends the
\* denial (line 121) before it calls update_limit (line 125), so the step that
\* ends a handler whose check failed must be the one that stores the record.
DeniedRecordKept ==
    (PassedGuards /\ last.outcome = "quota_denied") =>
        /\ last.writes = 1
        /\ limits[last.uid] = last.before
        /\ last.before.used_count >= LIMIT
        /\ last.before.premium = 0
        /\ CallTime <= last.before.reset_time

OverQuotaNeedsSubscription ==
    (/\ PassedGuards
     /\ last.outcome \in {"matched", "queued"}
     /\ last.before.premium = 0
     /\ last.before.used_count >= LIMIT
     /\ CallTime <= last.before.reset_time) => limits[last.uid].premium = 1

QuotaCheckTouchesNothing ==
    (task[1].pc \in {"next_sub", "next_deny_ans"} \/ task'[1].pc = "next_sub")
        => UNCHANGED <<queue, chats>>

FailedCheckPersistsOnce ==
    (task[1].pc = "next_deny_ans" /\ task'[1].pc = "idle") =>
        /\ last'.cmd = "next"
        /\ last'.uid = task[1].uid
        /\ last'.writes = 1
        /\ limits'[task[1].uid] = task[1].info

DenyButPersist ==
    /\ [](DeniedRecordKept /\ OverQuotaNeedsSubscription)
    /\ [][QuotaCheckTouchesNothing /\ FailedCheckPersistsOnce]_vars

\* C6: a /next of a user whose stored premium flag is set, past the guards,
\* reaches the matching step without the subscription check, and the stored
\* usedCount afterwards is not greater than before.
PremiumGetsThrough ==
    (PassedGuards /\ last.before.premium = 1) =>
        /\ last.outcome \in {"matched", "queued", "error"}
        /\ last.writes = 1
        /\ limits[last.uid].used_count <= last.before.used_count
        /\ limits[last.uid].premium = 1

PremiumSkipsSubscription ==
    task[1].pc \in {"next_sub", "next_grant_ans", "next_deny_ans"}
        => task[1].info.premium = 0

PremiumOverride == PremiumGetsThrough /\ PremiumSkipsSubscription

\* a premium user with the count at the limit, inside the window, is let through
PremiumAtLimitLetThrough ==
    /\ PassedGuards
    /\ last.before.premium = 1
    /\ last.before.used_count = LIMIT
    /\ CallTime <= last.before.reset_time
    /\ last.outcome \in {"matched", "queued"}

\* C7: once a user's stored premium flag is set it stays set, also when two
\* handlers of the same user overlap at the subscription check.
PremiumOneWay ==
    [][\A u \in Users : limits[u].premium = 1 => limits'[u].premium = 1]_vars

\* C9: a /report of a user who is in no pairing ends as no_session, adds no
\* row, sends nothing to the moderator and leaves queue, pairings and blocks
\* alone; a row is added only by a /report of a paired user, and it names the
\* caller as reporter and the caller's partner as reported.
ReportWithoutPartner ==
    \A u \in Users :
        (ReportStart(1, u) /\ ~InPairing(chats, u)) =>
            /\ task'[1].pc = "idle"
            /\ last'.outcome = "no_session"
            /\ UNCHANGED <<reports, admin_inbox, queue, chats, blocks>>

ReportRowNamesPartner ==
    /\ (task[1].pc = "idle" /\ task'[1].pc = "idle" /\ last'.cmd = "report") =>
            /\ ~InPairing(chats, last'.uid)
            /\ last'.outcome = "no_session"
    /\ reports' # reports =>
            /\ task[1].pc = "idle"
            /\ task'[1].pc = "report_ans"
            /\ Len(reports') = Len(reports) + 1
            /\ SubSeq(reports', 1, Len(reports)) = reports
            /\ LET row == reports'[Len(reports')]
               IN  /\ row.reporter_id = task'[1].uid
                   /\ row.reported_id = task'[1].target
                   /\ \/ <<row.reporter_id, row.reported_id>> \in chats
                      \/ <<row.reported_id, row.reporter_id>> \in chats
    /\ admin_inbox' # admin_inbox => task[1].pc \in {"report_ans", "report_header"}

ReportNeedsSession == [][ReportWithoutPartner /\ ReportRowNamesPartner]_vars

\* a user outside the only pairing has reported: no row, nothing forwarded
ReportedWithoutSession ==
    /\ task[1].pc = "idle"
    /\ last.cmd = "report"
    /\ last.outcome = "no_session"
    /\ chats # {}
    /\ ~InPairing(chats, last.uid)
    /\ reports = <<>>
    /\ admin_inbox = <<>>

\* C10: the window of a user never holds more than 5 references and is the
\* last min(n, 5) of the n references relayed from that user, oldest first; a
\* report forwards to the moderator exactly the window of the reported user,
\* in that order.
LastN(s, n) == IF Len(s) <= n THEN s ELSE SubSeq(s, Len(s) - n + 1, Len(s))

WindowIsLastFive ==
    \A x \in Users :
        /\ Len(last_messages[x]) <= 5
        /\ last_messages[x] = LastN(relayed[x], 5)

ForwardsWindow ==
    admin_inbox' # admin_inbox =>
        /\ Len(admin_inbox') = Len(admin_inbox) + 1
        /\ SubSeq(admin_inbox', 1, Len(admin_inbox)) = admin_inbox
        /\ LET batch == admin_inbox'[Len(admin_inbox')]
           IN  /\ batch.reporter = task[1].uid
               /\ batch.reported = task[1].target
               /\ batch.copies = LastN(relayed[batch.reported], 5)

RecentWindow == [](WindowIsLastFive) /\ [][ForwardsWindow]_vars

\* 7 texts relayed from x, then a report about x forwarded sends 3..7
SevenSentFiveForwarded ==
    \E x \in Users :
        /\ relayed[x] = [i \in 1..7 |-> <<x, i>>]
        /\ admin_inbox # <<>>
        /\ admin_inbox[Len(admin_inbox)].reported = x
        /\ admin_inbox[Len(admin_inbox)].copies = [i \in 1..5 |-> <<x, i + 2>>]
        /\ task[1].pc = "idle"

\* C11: at non-decreasing times, a call of is_rate_limited for a key is
\* rejected exactly when less than cooldown seconds have passed since the
\* last accepted call for that key (so the first call is accepted); a rejected
\* call changes no stamp, an accepted call sets that key's stamp to now and no
\* other, and no call changes what a call for another key would return.
SinceAccepted(k) == now - accepted_at[k][1]

RateLimiterCall(user_id, action, cooldown) ==
    LET k == Key(user_id, action)
        rejected == last'.outcome = "limited"
    IN  /\ rejected <=> (accepted_at[k] # <<>> /\ SinceAccepted(k) < cooldown)
        /\ rejected => last_action_time' = last_action_time
        /\ ~rejected => last_action_time' = [last_action_time EXCEPT ![k] = now]
        /\ \A other \in Keys \ {k}, c \in Cooldowns :
              is_rate_limited(last_action_time', other[1], other[2], c, now)
                  = is_rate_limited(last_action_time, other[1], other[2], c, now)

RateLimiter ==
    [][\A u \in Users, a \in Actions, c \in Cooldowns :
           RateCall(u, a, c) => RateLimiterCall(u, a, c)]_vars

\* a key was accepted, rejected 4 seconds later with the cooldown of 5 while a
\* call for another key of the same user was accepted
RejectedWithinCooldown ==
    \E u \in Users :
        /\ last.cmd = "is_rate_limited"
        /\ last.uid = u
        /\ last.outcome = "limited"
        /\ last.arg = NEXT_COOLDOWN
        /\ accepted_at[Key(u, "next")] = <<StartTime>>
        /\ accepted_at[Key(u, "stop")] = <<StartTime + 4>>
        /\ last_action_time[Key(u, "next")] = StartTime
        /\ now = StartTime + 4

\* C12: a command that is denied (a /next that is rate-limited, blocked or over
\* quota, a text of a blocked or unpaired user, a /report without a session)
\* leaves queue, pairings, block set, reports and recent-message windows as
\* they were, and the quota records too (on the over-quota path the record may
\* only change to a rolled-over window).
DeniedAtOnce ==
    /\ task[1].pc = "idle"
    /\ task'[1].pc = "idle"
    /\ last' # last
    /\ \/ last'.cmd = "next" /\ last'.outcome \in {"rate_limited", "blocked"}
       \/ last'.cmd = "text" /\ last'.outcome \in {"text_blocked", "no_partner"}
       \/ last'.cmd = "report" /\ last'.outcome = "no_session"

\* the steps of a /next after its subscription check has failed
OverQuotaStep ==
    \/ task[1].pc = "next_sub" /\ task'[1].pc = "next_deny_ans"
    \/ task[1].pc = "next_deny_ans" /\ task'[1].pc = "idle"

\* the step of a /next that takes it to the subscription check
QuotaCheckStep == task[1].pc = "idle" /\ task'[1].pc = "next_sub"

TablesKept == UNCHANGED <<queue, chats, blocks, reports, last_messages>>

QuotaKeptOrRolled ==
    \A u \in Users :
        \/ limits'[u] = limits[u]
        \/ /\ u = task[1].uid
           /\ task[1].pc = "next_deny_ans"
           /\ limits'[u].used_count = 0
           /\ limits'[u].reset_time > limits[u].reset_time
           /\ limits'[u].premium = limits[u].premium

\* the stamps are as before, except that a /next that passed the rate limiter
\* has set its caller's "next" stamp to the time of the call
StampOfPassedNext ==
    \/ last_action_time' = last_action_time
    \/ \E u \in Users :
          /\ \/ last'.cmd = "next" /\ last'.outcome = "blocked" /\ last'.uid = u
             \/ task[1].pc = "idle" /\ task'[1].pc = "next_sub" /\ task'[1].uid = u
          /\ last_action_time' = [last_action_time EXCEPT ![Key(u, "next")] = now]

DeniedKeepsTables ==
    [][(DeniedAtOnce \/ QuotaCheckStep \/ OverQuotaStep) =>
           (TablesKept /\ QuotaKeptOrRolled /\ StampOfPassedNext)]_vars

\* C12 as stated: the rate-limiter stamps too are exactly as before.
DeniedChangesNothing ==
    [][(DeniedAtOnce \/ OverQuotaStep) =>
           (TablesKept /\ QuotaKeptOrRolled /\ last_action_time' = last_action_time)]_vars

\* a blocked user's /next was turned away while another user waits: the stamp
\* of the blocked user is the time of that call
BlockedNextStamped ==
    /\ task[1].pc = "idle"
    /\ last.cmd = "next"
    /\ last.outcome = "blocked"
    /\ last.uid \in blocks
    /\ last_action_time[Key(last.uid, "next")] = now
    /\ now > StartTime
    /\ queue # <<>>

\* C13: a /report of a user with a partner appends exactly one row, which
\* names the reporter and the partner, also when the same pair was reported
\* before; no row that is there is changed or removed; and the command leaves
\* the pairing of the two, the queue and the block set as they were.
ReportAccepted == task[1].pc = "idle" /\ task'[1].pc = "report_ans"

ReportInProgress == task[1].pc \in {"report_ans", "report_header"}

ReportAppendsOneRow ==
    /\ \A u \in Users :
          (ReportCmd(1, u, MaxPairReports) /\ InPairing(chats, u)) => ReportAccepted
    /\ ReportAccepted =>
          /\ Len(reports') = Len(reports) + 1
          /\ reports'[Len(reports')].reporter_id = task'[1].uid
          /\ reports'[Len(reports')].reported_id = task'[1].target
          /\ RowsOf(chats', task'[1].uid) = RowsOf(chats', task'[1].target)
          /\ RowsOf(chats', task'[1].uid) # {}
          /\ UNCHANGED <<queue, chats, blocks>>
    /\ ReportInProgress => UNCHANGED <<reports, queue, chats, blocks>>
    /\ Len(reports') >= Len(reports)
    /\ SubSeq(reports', 1, Len(reports)) = reports

ReportAppends == [][ReportAppendsOneRow]_vars

\* the same pair was reported twice, and both rows are there while the two
\* are still paired
ReportedTwice ==
    /\ task[1].pc = "idle"
    /\ Len(reports) = 2
    /\ reports[1].reporter_id = reports[2].reporter_id
    /\ reports[1].reported_id = reports[2].reported_id
    /\ get_partner(chats, reports[1].reporter_id) = reports[1].reported_id
    /\ last.cmd = "report"
    /\ last.outcome = "reported"

\* C14: from an empty queue and no pairings, with no request denied, /next of
\* 1, 2, 3 in that order gives queue [1], then the pairing of 1 and 2 with an
\* empty queue, then queue [3]; /stop of 1 then removes the pairing and leaves
\* 2 unpaired and not queued with 3 still queued; a further /next of 3 leaves
\* 3 queued and unpaired, and a /next of 2 pairs 2 with 3 and empties the queue.
NextDone(u) ==
    /\ task'[1].pc = "idle"
    /\ last' # last
    /\ last'.cmd = "next"
    /\ last'.uid = u
    /\ last'.outcome \in {"matched", "queued"}

StopDone(u) ==
    /\ last' # last
    /\ last'.cmd = "stop"
    /\ last'.uid = u

Paired(c, u, v) == RowsOf(c, u) = RowsOf(c, v) /\ Cardinality(RowsOf(c, u)) = 1

OnlyPair(c, u, v) == Paired(c, u, v) /\ Cardinality(c) = 1

ScenarioSteps ==
    /\ (queue = <<>> /\ chats = {} /\ NextDone(1)) =>
           (queue' = <<1>> /\ chats' = {})
    /\ (queue = <<1>> /\ chats = {} /\ NextDone(2)) =>
           (queue' = <<>> /\ OnlyPair(chats', 1, 2))
    /\ (queue = <<>> /\ OnlyPair(chats, 1, 2) /\ NextDone(3)) =>
           (queue' = <<3>> /\ chats' = chats)
    /\ (queue = <<3>> /\ OnlyPair(chats, 1, 2) /\ StopDone(1)) =>
           (queue' = <<3>> /\ chats' = {})
    /\ (queue = <<3>> /\ chats = {} /\ NextDone(3)) =>
           (queue' = <<3>> /\ chats' = {})
    /\ (queue = <<3>> /\ chats = {} /\ NextDone(2)) =>
           (queue' = <<>> /\ OnlyPair(chats', 2, 3))

Scenario == [][ScenarioSteps]_vars

\* the scenario after the /stop of 1: each user has asked once, at the start,
\* 1 has just left its partner 2, and 3 is the one who waits
ScenarioAfterStop ==
    /\ task[1].pc = "idle"
    /\ last.cmd = "stop" /\ last.uid = 1 /\ last.arg = 2 /\ last.outcome = "stopped"
    /\ chats = {}
    /\ queue = <<3>>
    /\ \A u \in Users :
          /\ last_action_time[Key(u, "next")] = StartTime
          /\ limits[u].used_count = 1

\* C15: when /next handlers interleave at the awaits of cmd_next, also two
\* handlers of one user, every add_chat(uid, candidate) is called with both
\* ids in no pairing and not in the queue, so no user is ever in two pairings.
AddChatOnFreeUsers ==
    \A r \in chats' \ chats :
        /\ ~InPairing(chats, r[1])
        /\ ~InPairing(chats, r[2])
        /\ r[1] \notin Range(queue')
        /\ r[2] \notin Range(queue')

AtMostOnePairing == \A u \in Users : Cardinality(RowsOf(chats, u)) <= 1

PairingSafeAsync == [](AtMostOnePairing) /\ [][AddChatOnFreeUsers]_vars

\* C16: when a /block of u interleaves with a /next handler of u that has
\* passed its is_blocked check, then once the handlers have finished u is in
\* the block set, not in the queue and in no pairing.
BlockAtomic ==
    (\A t \in Tasks : task[t].pc = "idle") =>
        \A u \in blocks : u \notin Range(queue) /\ ~InPairing(chats, u)

\* C17: after a /stop of u, u is in no pairing and not in the queue.  If u had
\* a partner p, the pairing of u and p is the only row removed, p is unpaired
\* and not queued, and the queue is unchanged; if u had no partner, nothing
\* changes except that u leaves the queue.  Quota records, block set and
\* rate-limit stamps are unchanged.
PartnersOf(c, u) == {r[1] : r \in RowsOf(c, u)} \cup {r[2] : r \in RowsOf(c, u)}

StopLeaves(u) ==
    /\ ~InPairing(chats', u)
    /\ u \notin Range(queue')
    /\ IF InPairing(chats, u)
       THEN /\ Cardinality(RowsOf(chats, u)) = 1
            /\ chats' = chats \ RowsOf(chats, u)
            /\ queue' = queue
            /\ \A p \in PartnersOf(chats, u) :
                  ~InPairing(chats', p) /\ p \notin Range(queue')
       ELSE /\ chats' = chats
            /\ queue' = SelectSeq(queue, LAMBDA x : x # u)
    /\ UNCHANGED <<limits, blocks, last_action_time>>

Leave == [][\A u \in Users : StopDone(u) => StopLeaves(u)]_vars

\* u has left its partner while a third user waits
LeftPartnerBehind ==
    /\ last.cmd = "stop"
    /\ last.outcome = "stopped"
    /\ last.arg \in Users \ {last.uid}
    /\ ~InPairing(chats, last.arg)
    /\ last.arg \notin Range(queue)
    /\ queue # <<>>
    /\ chats = {}

\* C18: the queue never holds more than one user, also when handlers
\* interleave at their awaits: a user is added only when nobody else waits.
QueueAtMostOne == Len(queue) <= 1

EnqueueOnlyWhenAlone ==
    \A u \in Range(queue') \ Range(queue) : Range(queue) = {} /\ queue' = <<u>>

QueueNeverLong == [](QueueAtMostOne) /\ [][EnqueueOnlyWhenAlone]_vars

\* a user waits while the /next handler of another user, who will look for a
\* candidate when it resumes, is suspended after it removed that user's pairing
WaitsWhileHandlerSuspended ==
    /\ Len(queue) = 1
    /\ \E t \in Tasks :
          /\ task[t].pc = "next_left"
          /\ task[t].uid # queue[1]
          /\ task[t].target # queue[1]

\* C19: every stored quota record has 0 <= usedCount <= 5; a /next that is
\* let through and stores a record that is not premium stores the effective
\* count of the current window plus one, matched or queued; and a request of a
\* user who is not premium and does not pass the subscription check is not let
\* through once the effective count is 5, so that no more than 5 requests are
\* let through in one window.
CountInRange == \A u \in Users : limits[u].used_count \in 0..LIMIT

EffectiveCount == IF CallTime > last.before.reset_time THEN 0 ELSE last.before.used_count

LetThrough == PassedGuards /\ last.writes = 1 /\ last.outcome # "quota_denied"

CountsEachRequest ==
    (LetThrough /\ limits[last.uid].premium = 0) =>
        /\ limits[last.uid].used_count = EffectiveCount + 1
        /\ EffectiveCount < LIMIT

StopsAtFive ==
    (PassedGuards /\ limits[last.uid].premium = 0 /\ EffectiveCount >= LIMIT) =>
        last.outcome \in {"quota_denied", "error"} /\ limits[last.uid] = last.before

PassedQuotaCheck(t) == task[t].pc \in {"next_grant_ans", "next_left"}

ComputedRecord(t) ==
    IF task[t].pc = "next_grant_ans"
    THEN [used_count |-> CountUse(task[t].used, task[t].premium),
          reset_time |-> task[t].reset_time, premium |-> task[t].premium]
    ELSE limits[task[t].uid]

NextStepCompletes ==
    \A t \in Tasks :
        (PassedQuotaCheck(t) /\ task'[t].pc = "idle") =>
            LET uid == task[t].uid
            IN  /\ \/ Cardinality(RowsOf(chats', uid)) = 1
                   \/ uid \in Range(queue')
                /\ limits'[uid] = ComputedRecord(t)

NextCompletes == [][NextStepCompletes]_vars

====
